---- MODULE Spec2Model ----
(***************************************************************************)
(* The To-Do API of backend/main.py: a table of Task rows behind five      *)
(* FastAPI handlers (list, create, get, update, delete) and a health       *)
(* check.  Spec runs the handlers one request at a time.  SpecConc runs    *)
(* them on worker threads, one store statement per step, each request in   *)
(* its own session.  The store (models.Task, database.get_db) is not part  *)
(* of the sources at hand and is modelled from its description.            *)
(***************************************************************************)
EXTENDS Integers, Sequences, FiniteSets, TLC

VARIABLES
    tasks,      \* the tasks table: a sequence of rows in insertion order
    nextId,     \* the identity value the store assigns to the next insert
    now,        \* the store's clock, read and advanced when a row is inserted
    req,        \* the request served last: [op, task_id, body]
    resp,       \* the response to it: [status_code, body]
    log,        \* history: ids created (in order), ids deleted, and the row
                \* the PUT served last found before it changed it
    clients     \* SpecConc: the request each worker thread is serving

vars == <<tasks, nextId, now, req, resp, log, clients>>

\* The identity counter is capped: POST /tasks is served while nextId <= MaxTasks.
\* Nothing bounds the number of requests.
MaxTasks == 2

\* ------------------------------------------------------------- values
\* Python's None, True and False, and a key left out of a JSON body.
None == "None"
True == "True"
False == "False"
Omitted == "Omitted"

Titles == {"", "a"}
Descriptions == {"", "d"}
Bools == {True, False}

\* JSON bodies a client can send to POST /tasks and PUT /tasks/{id}.
Bodies ==
    [title : Titles \cup {None, Omitted},
     description : Descriptions \cup {None, Omitted},
     completed : Bools \cup {None, Omitted}]

NoBody == [title |-> Omitted, description |-> Omitted, completed |-> Omitted]

\* ------------------------------------------------------------- schemas
\* TaskCreate with "description: Optional[str] = None".
TaskCreate_null_description(body) ==
    [valid |-> body.title \notin {None, Omitted} /\ body.completed # None,
     title |-> body.title,
     description |-> IF body.description = Omitted THEN None ELSE body.description,
     completed |-> IF body.completed = Omitted THEN False ELSE body.completed]

\* TaskCreate with "title: Optional[str] = None".
TaskCreate_optional_title(body) ==
    [valid |-> body.completed # None,
     title |-> IF body.title = Omitted THEN None ELSE body.title,
     description |-> IF body.description = Omitted THEN "" ELSE body.description,
     completed |-> IF body.completed = Omitted THEN False ELSE body.completed]

\* class TaskBase / TaskCreate: title is required, description defaults to
\* "", completed to False; None is accepted only for description.
TaskCreate(body) ==
    [valid |-> body.title \notin {None, Omitted} /\ body.completed # None,
     title |-> body.title,
     description |-> IF body.description = Omitted THEN "" ELSE body.description,
     completed |-> IF body.completed = Omitted THEN False ELSE body.completed]

\* class TaskUpdate: every field is Optional and defaults to None.
TaskUpdate(body) ==
    [title |-> IF body.title = Omitted THEN None ELSE body.title,
     description |-> IF body.description = Omitted THEN None ELSE body.description,
     completed |-> IF body.completed = Omitted THEN None ELSE body.completed]

HTTPException(status_code, detail) ==
    [status_code |-> status_code, body |-> [detail |-> detail]]

\* class TaskResponse(TaskBase): the response model. title must be a str and
\* completed a bool; a row that does not validate is a server error.
TaskResponse(row) ==
    IF row.title = None \/ row.completed = None
    THEN HTTPException(500, "Internal Server Error")
    ELSE [status_code |-> 200, body |-> row]

\* ------------------------------------------------------------- store
\* models.Task: one row of the tasks table.
Task(id, title, description, completed, created_at) ==
    [id |-> id, title |-> title, description |-> description,
     completed |-> completed, created_at |-> created_at]

\* db.query(Task).filter(Task.id == task_id).first(): the position of the
\* first row with that id, 0 when there is none.
first(table, task_id) ==
    IF \E i \in 1..Len(table) : table[i].id = task_id
    THEN CHOOSE i \in 1..Len(table) :
            /\ table[i].id = task_id
            /\ \A j \in 1..(i - 1) : table[j].id # task_id
    ELSE 0

\* db.query(Task).all(): every row, in insertion order.
all(table) == table

\* db.add(row); db.commit(): the row goes at the end of the table.
add(table, row) == Append(table, row)

\* db.delete(db_task); db.commit(): the row at position i leaves the table.
delete(table, i) ==
    [j \in 1..(Len(table) - 1) |-> IF j < i THEN table[j] ELSE table[j + 1]]

\* ------------------------------------------------------------- handlers
\* Each handler maps the store and the request to the store after it and the
\* response: [tasks, nextId, resp].

\* get_tasks with .limit(1) before .all().
get_tasks_first(table) ==
    [status_code |-> 200,
     body |-> IF all(table) = <<>> THEN <<>> ELSE <<all(table)[1]>>]

get_tasks(table) ==
    LET rows == all(table)
    IN  IF \E i \in 1..Len(rows) : TaskResponse(rows[i]).status_code # 200
        THEN HTTPException(500, "Internal Server Error")
        ELSE [status_code |-> 200, body |-> rows]

create_task(table, id, clock, task) ==
    LET db_task == Task(id, task.title, task.description, task.completed, clock)
    IN  [tasks |-> add(table, db_task), resp |-> TaskResponse(db_task)]

get_task(table, task_id) ==
    LET i == first(table, task_id)
    IN  IF i = 0 THEN HTTPException(404, "Task not found")
        ELSE TaskResponse(table[i])

\* update_task assigning every field, without the "is not None" tests.
set_fields_always(db_task, task) ==
    [db_task EXCEPT !.title = task.title,
                    !.description = task.description,
                    !.completed = task.completed]

\* update_task testing "if task.<field>:", the field's truth value.
set_fields_truthy(db_task, task) ==
    LET t1 == IF task.title \notin {None, ""}
              THEN [db_task EXCEPT !.title = task.title] ELSE db_task
        t2 == IF task.description \notin {None, ""}
              THEN [t1 EXCEPT !.description = task.description] ELSE t1
    IN  IF task.completed \notin {None, False}
        THEN [t2 EXCEPT !.completed = task.completed] ELSE t2

\* The three "if task.<field> is not None" assignments of update_task.
set_fields(db_task, task) ==
    LET t1 == IF task.title # None
              THEN [db_task EXCEPT !.title = task.title] ELSE db_task
        t2 == IF task.description # None
              THEN [t1 EXCEPT !.description = task.description] ELSE t1
    IN  IF task.completed # None
        THEN [t2 EXCEPT !.completed = task.completed] ELSE t2

\* update_task that also resets created_at.
update_task_touch(table, task_id, task) ==
    LET i == first(table, task_id)
    IN  IF i = 0
        THEN [tasks |-> table, resp |-> HTTPException(404, "Task not found")]
        ELSE LET db_task == [set_fields(table[i], task) EXCEPT !.created_at = 0]
             IN  [tasks |-> [table EXCEPT ![i] = db_task],
                  resp |-> TaskResponse(db_task)]

update_task(table, task_id, task) ==
    LET i == first(table, task_id)
    IN  IF i = 0
        THEN [tasks |-> table, resp |-> HTTPException(404, "Task not found")]
        ELSE LET db_task == set_fields(table[i], task)
             IN  [tasks |-> [table EXCEPT ![i] = db_task],
                  resp |-> TaskResponse(db_task)]

\* delete_task without the "if not db_task" branch.
delete_task_missing_ok(table, task_id) ==
    LET i == first(table, task_id)
    IN  [tasks |-> IF i = 0 THEN table ELSE delete(table, i),
         resp |-> [status_code |-> 200,
                   body |-> [message |-> "Task deleted successfully"]]]

\* delete_task without db.commit(): the row stays.
delete_task_no_commit(table, task_id) ==
    LET i == first(table, task_id)
    IN  IF i = 0
        THEN [tasks |-> table, resp |-> HTTPException(404, "Task not found")]
        ELSE [tasks |-> table,
              resp |-> [status_code |-> 200,
                        body |-> [message |-> "Task deleted successfully"]]]

delete_task(table, task_id) ==
    LET i == first(table, task_id)
    IN  IF i = 0
        THEN [tasks |-> table, resp |-> HTTPException(404, "Task not found")]
        ELSE [tasks |-> delete(table, i),
              resp |-> [status_code |-> 200,
                        body |-> [message |-> "Task deleted successfully"]]]

root == [status_code |-> 200, body |-> [message |-> "To-Do API is running"]]

\* ------------------------------------------------------------- requests
\* SpecConc: FastAPI runs the handlers ("def", not "async def") on worker threads.
Clients == {"thread1", "thread2"}

\* Path ids a client can name: every id handed out so far and the next one,
\* which no row has.
PathIds == 1..nextId

Request(op, task_id, body) == [op |-> op, task_id |-> task_id, body |-> body]

\* No request is being served, and no response is waiting to be sent.
NoRequest == Request("NONE", 0, NoBody)
NoResponse == [status_code |-> 0, body |-> <<>>]

\* The server takes a request when it is idle.
Idle == req = NoRequest

\* A worker thread with no request.
NoClient ==
    [pc |-> "idle", op |-> "NONE", task_id |-> 0, task |-> NoBody,
     db_task |-> None, session |-> "none", status_code |-> 0, stale |-> FALSE]

\* The row with that id as update_task finds it: <<row>>, or <<>> when absent.
Found(task_id) ==
    IF first(tasks, task_id) = 0 THEN <<>> ELSE <<tasks[first(tasks, task_id)]>>

Init ==
    /\ log = [created |-> <<>>, deleted |-> {}, before |-> <<>>]
    /\ clients = [c \in Clients |-> NoClient]
    /\ tasks = <<>>
    /\ nextId = 1
    /\ now = 0
    /\ req = NoRequest
    /\ resp = NoResponse

GetTasks ==
    /\ Idle
    /\ req' = Request("GET /tasks", 0, NoBody)
    /\ resp' = get_tasks(tasks)
    /\ UNCHANGED <<tasks, nextId, now, log, clients>>

CreateTask ==
    /\ Idle
    /\ nextId <= MaxTasks
    /\ now' = now + 1
    /\ \E body \in Bodies :
         LET task == TaskCreate(body)
             out == create_task(tasks, nextId, now, task)
         IN  /\ req' = Request("POST /tasks", 0, body)
             /\ IF task.valid
                THEN /\ tasks' = out.tasks
                     /\ nextId' = nextId + 1
                     /\ now' = now + 1
                     /\ resp' = out.resp
                     /\ log' = [log EXCEPT !.created = Append(@, nextId)]
                ELSE /\ resp' = HTTPException(422, "Unprocessable Entity")
                     /\ UNCHANGED <<tasks, nextId, now, log>>
    /\ UNCHANGED clients

GetTask ==
    /\ Idle
    /\ \E task_id \in PathIds :
         /\ req' = Request("GET /tasks/{task_id}", task_id, NoBody)
         /\ resp' = get_task(tasks, task_id)
    /\ UNCHANGED <<tasks, nextId, now, log, clients>>

UpdateTask ==
    /\ Idle
    /\ \E task_id \in PathIds, body \in Bodies :
         LET out == update_task(tasks, task_id, TaskUpdate(body))
         IN  /\ req' = Request("PUT /tasks/{task_id}", task_id, body)
             /\ tasks' = out.tasks
             /\ resp' = out.resp
             /\ log' = [log EXCEPT !.before = Found(task_id)]
    /\ UNCHANGED <<nextId, now, clients>>

DeleteTask ==
    /\ Idle
    /\ \E task_id \in PathIds :
         LET out == delete_task(tasks, task_id)
         IN  /\ req' = Request("DELETE /tasks/{task_id}", task_id, NoBody)
             /\ tasks' = out.tasks
             /\ resp' = out.resp
             /\ log' = [log EXCEPT
                          !.deleted = IF out.resp.status_code = 200
                                      THEN @ \cup {task_id} ELSE @]
    /\ UNCHANGED <<nextId, now, clients>>

Root ==
    /\ Idle
    /\ req' = Request("GET /", 0, NoBody)
    /\ resp' = root
    /\ UNCHANGED <<tasks, nextId, now, log, clients>>

\* The response is sent; the server waits for the next request.
Respond ==
    /\ req # NoRequest
    /\ req' = NoRequest
    /\ resp' = NoResponse
    /\ log' = [log EXCEPT !.before = <<>>]
    /\ UNCHANGED <<tasks, nextId, now, clients>>

Next == Respond \/ GetTasks \/ CreateTask \/ GetTask \/ UpdateTask \/ DeleteTask \/ Root

Spec == Init /\ [][Next]_vars

\* ------------------------------------------------------------- threads
\* Bodies sent in SpecConc: a title or nothing.
ConcBodies ==
    {b \in Bodies : b.title \in Titles \cup {Omitted}
                    /\ b.description = Omitted /\ b.completed = Omitted}

Ops == {"GET /tasks", "POST /tasks", "GET /tasks/{task_id}",
        "PUT /tasks/{task_id}", "DELETE /tasks/{task_id}"}

\* The request leaves its handler (a return, a raise, or a body that does
\* not validate) with that status: its locals are gone, its
\* session is still to be closed.
exit(cl, status_code) ==
    [NoClient EXCEPT !.pc = "close", !.op = cl.op, !.session = cl.session,
                     !.status_code = status_code, !.stale = cl.stale]

\* Rows that POSTs already received are about to insert.
Inserting ==
    Cardinality({c \in Clients :
        clients[c].op = "POST /tasks" /\ clients[c].pc = "commit"})

\* Depends(get_db): the request gets a session of its own; the body is
\* validated against the handler's schema before the handler runs.
Receive(c) ==
    /\ clients[c].pc = "idle"
    /\ \E op \in Ops, task_id \in PathIds, body \in ConcBodies :
         /\ op \in {"GET /tasks", "POST /tasks"} => task_id = 1
         /\ op \notin {"POST /tasks", "PUT /tasks/{task_id}"} => body = NoBody
         /\ op = "POST /tasks" => nextId + Inserting <= MaxTasks
         /\ clients' = [clients EXCEPT ![c] =
               LET cl == [NoClient EXCEPT !.op = op, !.session = "open"]
               IN  IF op = "POST /tasks"
                   THEN IF TaskCreate(body).valid
                        THEN [cl EXCEPT !.pc = "commit", !.task = TaskCreate(body)]
                        ELSE exit(cl, 422)
                   ELSE [cl EXCEPT !.pc = "query", !.task_id = task_id,
                                   !.task = TaskUpdate(body)]]
    /\ UNCHANGED <<tasks, nextId, now, req, resp, log>>

\* The handler's query: db.query(Task).all() or
\* db.query(Task).filter(Task.id == task_id).first(), and the 404 branch.
Query(c) ==
    LET cl == clients[c]
        i == first(tasks, cl.task_id)
    IN  /\ cl.pc = "query"
        /\ clients' = [clients EXCEPT ![c] =
              IF cl.op = "GET /tasks"
              THEN exit(cl, get_tasks(tasks).status_code)
              ELSE IF i = 0
              THEN exit(cl, 404)
              ELSE IF cl.op = "GET /tasks/{task_id}"
              THEN exit(cl, TaskResponse(tasks[i]).status_code)
              ELSE [cl EXCEPT !.pc = "commit", !.db_task = tasks[i]]]
        /\ UNCHANGED <<tasks, nextId, now, req, resp, log>>

\* The columns of db_task the handler changed: the UPDATE the commit flushes
\* sets these and no others.
dirty(db_task, changed) ==
    {f \in {"title", "description", "completed"} : changed[f] # db_task[f]}

\* db.commit() of create_task: the INSERT.
CommitCreate(c) ==
    LET cl == clients[c]
        db_task == Task(nextId, cl.task.title, cl.task.description,
                        cl.task.completed, now)
    IN  /\ cl.pc = "commit"
        /\ cl.op = "POST /tasks"
        /\ tasks' = add(tasks, db_task)
        /\ nextId' = nextId + 1
        /\ now' = now + 1
        /\ clients' = [clients EXCEPT ![c] =
              [cl EXCEPT !.pc = "refresh", !.db_task = db_task]]
        /\ UNCHANGED <<req, resp, log>>

\* db.commit() of update_task: an UPDATE of the changed columns WHERE id =
\* db_task.id. It matches no row when the row has been deleted since the
\* query, and the session raises StaleDataError.
CommitUpdate(c) ==
    LET cl == clients[c]
        changed == set_fields(cl.db_task, cl.task)
        cols == dirty(cl.db_task, changed)
        i == first(tasks, cl.db_task.id)
    IN  /\ cl.pc = "commit"
        /\ cl.op = "PUT /tasks/{task_id}"
        /\ IF cols = {}
           THEN /\ clients' = [clients EXCEPT ![c] = [cl EXCEPT !.pc = "refresh"]]
                /\ UNCHANGED tasks
           ELSE IF i = 0
           THEN /\ clients' = [clients EXCEPT ![c] =
                     exit([cl EXCEPT !.stale = TRUE], 500)]
                /\ UNCHANGED tasks
           ELSE /\ tasks' = [tasks EXCEPT ![i] =
                     [f \in DOMAIN tasks[i] |->
                        IF f \in cols THEN changed[f] ELSE tasks[i][f]]]
                /\ clients' = [clients EXCEPT ![c] = [cl EXCEPT !.pc = "refresh"]]
        /\ UNCHANGED <<nextId, now, req, resp, log>>

\* db.delete(db_task); db.commit() of delete_task: a DELETE WHERE id =
\* db_task.id. When it matches no row the session only warns, and the
\* handler returns its message.
CommitDelete(c) ==
    LET cl == clients[c]
        i == first(tasks, cl.db_task.id)
    IN  /\ cl.pc = "commit"
        /\ cl.op = "DELETE /tasks/{task_id}"
        /\ tasks' = IF i = 0 THEN tasks ELSE delete(tasks, i)
        /\ clients' = [clients EXCEPT ![c] =
              exit([cl EXCEPT !.stale = (i = 0)], 200)]
        /\ UNCHANGED <<nextId, now, req, resp, log>>

\* db.refresh(db_task) and the return: the row is read again by its id;
\* the session raises InvalidRequestError when it is gone.
Refresh(c) ==
    LET cl == clients[c]
        i == first(tasks, cl.db_task.id)
    IN  /\ cl.pc = "refresh"
        /\ clients' = [clients EXCEPT ![c] =
              IF i = 0
              THEN exit(cl, 500)
              ELSE exit(cl, TaskResponse(tasks[i]).status_code)]
        /\ UNCHANGED <<tasks, nextId, now, req, resp, log>>

\* get_db without try/finally: close() runs only when the handler returns.
get_db_close_on_return(cl) ==
    [cl EXCEPT !.pc = "done",
               !.session = IF cl.status_code = 200 THEN "closed" ELSE @]

\* get_db after its yield: the session is closed, on a return and on a raise.
get_db_close(cl) ==
    [cl EXCEPT !.pc = "done", !.session = "closed"]

Close(c) ==
    /\ clients[c].pc = "close"
    /\ clients' = [clients EXCEPT ![c] = get_db_close(clients[c])]
    /\ UNCHANGED <<tasks, nextId, now, req, resp, log>>

\* The response has been sent; the thread goes back to the pool.
Release(c) ==
    /\ clients[c].pc = "done"
    /\ clients' = [clients EXCEPT ![c] = NoClient]
    /\ UNCHANGED <<tasks, nextId, now, req, resp, log>>

NextConc ==
    \E c \in Clients :
        \/ Receive(c)
        \/ Query(c)
        \/ CommitCreate(c)
        \/ CommitUpdate(c)
        \/ CommitDelete(c)
        \/ Refresh(c)
        \/ Close(c)
        \/ Release(c)

SpecConc == Init /\ [][NextConc]_vars

\* ------------------------------------------------------------- properties
Fields == {"title", "description", "completed"}
Ids(table) == {table[i].id : i \in 1..Len(table)}
Rows(table) == {table[i] : i \in 1..Len(table)}
NotFound == [status_code |-> 404, body |-> [detail |-> "Task not found"]]
ById == {"GET /tasks/{task_id}", "PUT /tasks/{task_id}", "DELETE /tasks/{task_id}"}

\* C1: a PUT on an existing task leaves every field its body omits, the
\* task's id and created_at, and every other row as they were, and answers
\* 200 with the task as it is stored after the update.
C1_Step ==
    (req'.op = "PUT /tasks/{task_id}" /\ req'.task_id \in Ids(tasks)) =>
        LET i == first(tasks, req'.task_id)
        IN  /\ Len(tasks') = Len(tasks)
            /\ \A j \in 1..Len(tasks) : j # i => tasks'[j] = tasks[j]
            /\ tasks'[i].id = tasks[i].id
            /\ tasks'[i].created_at = tasks[i].created_at
            /\ \A f \in Fields :
                 req'.body[f] = Omitted => tasks'[i][f] = tasks[i][f]
            /\ resp' = [status_code |-> 200, body |-> tasks'[i]]
C1_PartialUpdate == [][C1_Step]_vars

\* A PUT of a title alone has answered 200 for a task whose description and
\* completed flag are not the defaults.
C1_Witness ==
    /\ req.op = "PUT /tasks/{task_id}"
    /\ req.body.title \in Titles
    /\ req.body.description = Omitted
    /\ req.body.completed = Omitted
    /\ resp.status_code = 200
    /\ resp.body.title # log.before[1].title
    /\ resp.body.description = "d"
    /\ resp.body.completed = True

\* C2: GET, PUT and DELETE of an id no stored task has answer 404 with
\* {"detail": "Task not found"} and leave the table as it was.
C2_Step ==
    (req'.op \in ById /\ req'.task_id \notin Ids(tasks)) =>
        (resp' = NotFound /\ tasks' = tasks)
C2_NotFound == [][C2_Step]_vars

\* A PUT of an id that was deleted earlier has answered 404 while another
\* task is stored.
C2_Witness ==
    /\ req.op = "PUT /tasks/{task_id}"
    /\ req.task_id \in log.deleted
    /\ req.body.title \in Titles
    /\ resp.status_code = 404
    /\ tasks # <<>>

\* C3: GET /tasks answers 200 with the tasks created and not deleted, each
\* once, in creation order, which is ascending id; with [] on an empty store.
Alive == SelectSeq(log.created, LAMBDA id : id \notin log.deleted)
C3_Listing ==
    req.op = "GET /tasks" =>
        /\ resp.status_code = 200
        /\ Len(resp.body) = Len(Alive)
        /\ \A k \in 1..Len(Alive) :
             /\ resp.body[k].id = Alive[k]
             /\ resp.body[k] \in Rows(tasks)
        /\ \A k, l \in 1..Len(resp.body) :
             k < l => resp.body[k].id < resp.body[l].id
        /\ (tasks = <<>> => resp.body = <<>>)

\* A listing of two tasks has been given.
C3_Witness ==
    /\ req.op = "GET /tasks"
    /\ Len(resp.body) = 2
    /\ resp.body[1].id = 1
    /\ resp.body[2].id = 2

\* C4: once a DELETE has answered 200, no GET /tasks lists the id, GET and
\* DELETE of the id answer 404, and the DELETE itself removes that row and
\* no other.
C4_Step ==
    /\ req'.op = "GET /tasks" =>
         \A k \in 1..Len(resp'.body) : resp'.body[k].id \notin log.deleted
    /\ (req'.op \in {"GET /tasks/{task_id}", "DELETE /tasks/{task_id}"}
        /\ req'.task_id \in log.deleted) => resp'.status_code = 404
    /\ (req'.op = "DELETE /tasks/{task_id}" /\ resp'.status_code = 200) =>
         /\ req'.task_id \notin Ids(tasks')
         /\ Len(tasks') = Len(tasks) - 1
         /\ \A r \in Rows(tasks) : r.id # req'.task_id => r \in Rows(tasks')
C4_Deleted == [][C4_Step]_vars

\* A second DELETE of an id has answered 404 while another task is stored.
C4_Witness ==
    /\ req.op = "DELETE /tasks/{task_id}"
    /\ req.task_id \in log.deleted
    /\ resp.status_code = 404
    /\ tasks # <<>>

\* C5: no two stored rows share an id, and a row keeps its id and its
\* created_at from its insertion to its deletion.
C5_Unique ==
    \A i, j \in 1..Len(tasks) : i # j => tasks[i].id # tasks[j].id
C5_Step ==
    /\ req'.op # "DELETE /tasks/{task_id}" =>
         \A i \in 1..Len(tasks) :
            /\ i <= Len(tasks')
            /\ tasks'[i].id = tasks[i].id
            /\ tasks'[i].created_at = tasks[i].created_at
    /\ \A r \in Rows(tasks') :
         \/ \E q \in Rows(tasks) : q.id = r.id /\ q.created_at = r.created_at
         \/ r.id \notin Ids(tasks) /\ req'.op = "POST /tasks"
C5_Identity == []C5_Unique /\ [][C5_Step]_vars

\* The second of two tasks, created after time 0, has been updated.
C5_Witness ==
    /\ req.op = "PUT /tasks/{task_id}"
    /\ resp.status_code = 200
    /\ resp.body # log.before[1]
    /\ resp.body.created_at > 0
    /\ Len(tasks) = 2

\* C6: a POST with a title and nothing else answers 200 with that title,
\* description "", completed false, an integer id and a created_at, and the
\* task is stored as returned.
C6_Defaults ==
    (/\ req.op = "POST /tasks"
     /\ req.body.title \in Titles
     /\ req.body.description = Omitted
     /\ req.body.completed = Omitted) =>
        /\ resp.status_code = 200
        /\ resp.body.title = req.body.title
        /\ resp.body.description = ""
        /\ resp.body.completed = False
        /\ resp.body.id \in Nat \ {0}
        /\ resp.body.created_at \in Nat
        /\ resp.body \in Rows(tasks)

\* A POST of {"title": "a"} has been answered.
C6_Witness ==
    /\ req.op = "POST /tasks"
    /\ req.body = [title |-> "a", description |-> Omitted, completed |-> Omitted]
    /\ resp.status_code = 200

\* C7: a PUT stores every value it supplies, the zero values "" and false
\* included, and keeps the stored value of every field it omits.
C7_ZeroValues ==
    (req.op = "PUT /tasks/{task_id}" /\ log.before # <<>>) =>
        /\ resp.status_code = 200
        /\ resp.body \in Rows(tasks)
        /\ \A f \in Fields :
             /\ req.body[f] \notin {Omitted, None} => resp.body[f] = req.body[f]
             /\ req.body[f] = Omitted => resp.body[f] = log.before[1][f]

\* A PUT of completed=false and description="" alone has cleared a true flag
\* and a non-empty description, and kept the title.
C7_Witness ==
    /\ req.op = "PUT /tasks/{task_id}"
    /\ req.body = [title |-> Omitted, description |-> "", completed |-> False]
    /\ log.before # <<>>
    /\ log.before[1].completed = True
    /\ log.before[1].description = "d"
    /\ log.before[1].title = "a"
    /\ resp.body.completed = False
    /\ resp.body.description = ""
    /\ resp.body.title = "a"

\* C8: a PUT or DELETE that found its task never commits after the task has
\* been deleted, and ends in 200 or 404.
C8_Atomic ==
    \A c \in Clients :
        /\ ~clients[c].stale
        /\ (clients[c].pc = "done"
            /\ clients[c].op \in {"PUT /tasks/{task_id}", "DELETE /tasks/{task_id}"})
           => clients[c].status_code \in {200, 404}

\* C9: a request that has finished holds no session, whether its handler
\* returned, raised the 404 or failed in the store; nor does an idle thread.
C9_SessionReleased ==
    \A c \in Clients :
        /\ clients[c].pc = "done" => clients[c].session = "closed"
        /\ clients[c].pc = "idle" => clients[c].session = "none"

\* One request has finished on an exception from the store and another on
\* the 404, both with their sessions closed.
C9_Witness ==
    \E c, d \in Clients :
        /\ clients[c].pc = "done"
        /\ clients[c].status_code = 500
        /\ clients[c].session = "closed"
        /\ clients[d].pc = "done"
        /\ clients[d].status_code = 404
        /\ clients[d].session = "closed"

\* C10: every stored task has a title and a completed flag that are not
\* null; a POST with no title, a null title or a null completed answers 422
\* and stores nothing; a PUT of null keeps the stored value; and no field of
\* a stored task goes from non-null to null.
C10_NonNull ==
    \A r \in Rows(tasks) : r.title # None /\ r.completed # None
C10_Step ==
    /\ (req'.op = "POST /tasks"
        /\ (req'.body.title \in {None, Omitted} \/ req'.body.completed = None))
       => (resp'.status_code = 422 /\ tasks' = tasks)
    /\ (req'.op = "PUT /tasks/{task_id}" /\ req'.task_id \in Ids(tasks)) =>
         \A f \in Fields :
            req'.body[f] = None =>
               tasks'[first(tasks, req'.task_id)][f]
                  = tasks[first(tasks, req'.task_id)][f]
    /\ \A q \in Rows(tasks), r \in Rows(tasks') :
         q.id = r.id => \A f \in Fields : q[f] # None => r[f] # None
====
